---- MODULE Spec2Model ----
(***************************************************************************)
(* A model of pkg/api/trillian_client.go: the TrillianClient facade over   *)
(* a remote Trillian log (addLeaf, getLeafByHash, getLeafByIndex,          *)
(* getProofByHash, getLatest, getConsistencyProof) and the tree bootstrap  *)
(* createAndInitTree.  The remote log, its admin service and the imported  *)
(* Merkle verifier are the environment.                                    *)
(***************************************************************************)
EXTENDS Integers, Sequences, FiniteSets, TLC

\* ------------------------------------------------------------------ bounds
\* The merged log holds at most MaxLeaves leaves.  Leaves are named in the
\* order of their merge: the log of size n is <<1, ..., n>>.
MaxLeaves == 4
\* Trees the admin scope holds before the first bootstrap call (at most).
MaxInitTrees == 2

\* Leaf values a caller may name: the mergeable ones and one never merged.
Vals == 1..(MaxLeaves + 1)
\* The value a forger puts in place of a leaf.
ForgedVal == MaxLeaves + 1
\* Two client goroutines, each making one call, run concurrently.
Procs == {1, 2}

\* ------------------------------------------------- hashing (rfc6962 hasher)
\* Hashes are terms in prefix notation, so the hash is injective: a leaf
\* hash is <<0, v>> (prefix 0x00), a node hash is <<1>> \o l \o r (0x01).
HashLeaf(v) == <<0, v>>
HashChildren(l, r) == <<1>> \o l \o r
EmptyRoot == <<>>

RECURSIVE Pow2(_)
Pow2(n) == IF n = 0 THEN 1 ELSE 2 * Pow2(n - 1)

RECURSIVE BitLen(_)
BitLen(x) == IF x = 0 THEN 0 ELSE 1 + BitLen(x \div 2)

RECURSIVE OnesCount(_)
OnesCount(x) == IF x = 0 THEN 0 ELSE (x % 2) + OnesCount(x \div 2)

RECURSIVE Xor(_, _)
Xor(a, b) ==
    IF a = 0 /\ b = 0 THEN 0
    ELSE (((a % 2) + (b % 2)) % 2) + 2 * Xor(a \div 2, b \div 2)

\* Largest power of two strictly less than n (n > 1).
SplitPoint(n) == Pow2(BitLen(n - 1) - 1)

\* ------------------------------------------ the log's Merkle tree (backend)
RECURSIVE MTH(_)
MTH(D) ==
    IF Len(D) = 0 THEN EmptyRoot
    ELSE IF Len(D) = 1 THEN HashLeaf(D[1])
    ELSE LET k == SplitPoint(Len(D))
         IN  HashChildren(MTH(SubSeq(D, 1, k)), MTH(SubSeq(D, k + 1, Len(D))))

\* The audit path of the leaf at 0-based index m in the tree over D.
RECURSIVE AuditPath(_, _)
AuditPath(m, D) ==
    IF Len(D) <= 1 THEN <<>>
    ELSE LET k == SplitPoint(Len(D))
         IN  IF m < k
             THEN Append(AuditPath(m, SubSeq(D, 1, k)), MTH(SubSeq(D, k + 1, Len(D))))
             ELSE Append(AuditPath(m - k, SubSeq(D, k + 1, Len(D))), MTH(SubSeq(D, 1, k)))

\* --------------------------------------- merkle.LogVerifier (imported code)
RECURSIVE chainInner(_, _, _, _)
chainInner(seed, proof, index, i) ==
    IF i > Len(proof) THEN seed
    ELSE chainInner(IF (index \div Pow2(i - 1)) % 2 = 0
                    THEN HashChildren(seed, proof[i])
                    ELSE HashChildren(proof[i], seed),
                    proof, index, i + 1)

RECURSIVE chainBorderRight(_, _, _)
chainBorderRight(seed, proof, i) ==
    IF i > Len(proof) THEN seed
    ELSE chainBorderRight(HashChildren(proof[i], seed), proof, i + 1)

innerProofSize(index, size) == BitLen(Xor(index, size - 1))

\* "ok", or the error: "malformed" (bad index, size or proof length) or
\* "mismatch" (the recomputed root differs from the root given).
VerifyInclusionProof(leafIndex, treeSize, proof, rootHash, leafHash) ==
    IF leafIndex < 0 \/ treeSize < 0 \/ leafIndex >= treeSize THEN "malformed"
    ELSE LET inner  == innerProofSize(leafIndex, treeSize)
             border == OnesCount(leafIndex \div Pow2(inner))
         IN  IF Len(proof) # inner + border THEN "malformed"
             ELSE LET res == chainBorderRight(
                                 chainInner(leafHash, SubSeq(proof, 1, inner), leafIndex, 1),
                                 SubSeq(proof, inner + 1, Len(proof)), 1)
                  IN  IF res = rootHash THEN "ok" ELSE "mismatch"

\* ------------------------------------------------------------- client state
VARIABLES
    leaves,     \* backend: the merged log, a sequence of leaf values
    alive,      \* FALSE once the process has exited (log.Logger.Fatal)
    pc,         \* per goroutine: "idle", the pending remote call, "done", "panic"
    op,         \* per goroutine: the TrillianClient method it runs
    hashValue,  \* per goroutine: getProofByHash's argument
    root,       \* per goroutine: getProofByHash's local root
    rqst,       \* per goroutine: the last request sent
    received,   \* per goroutine: resp.Proof as received from the backend
    verifs,     \* per goroutine: the VerifyInclusionProof calls made, in order
    events,     \* per goroutine: the steps of getProofByHash taken, in order
    reply,      \* per goroutine: how its last remote call ended (error, status)
    fetched,    \* per goroutine: the log's root when root() was answered
    result      \* per goroutine: what the method returned

clientVars == <<leaves, alive, pc, op, hashValue, root, rqst, received, verifs,
                events, reply, fetched, result>>

\* The tree bootstrap's state.
VARIABLES
    trees,      \* admin server: the trees of the scope, in listing order
    inited,     \* admin server: ids of the trees whose log is initialized
    bpc,        \* per bootstrap call: "idle", the pending remote call, "done"
    listing,    \* per bootstrap call: trees.Tree as ListTrees returned it
    t,          \* per bootstrap call: the tree CreateTree returned (its id, or 0)
    calls,      \* per bootstrap call: the remote calls issued, in order
    replies,    \* per bootstrap call: the error each of them returned, in order
    seqno,      \* per bootstrap call: its place in the order of starts (0: idle)
    bresult     \* per bootstrap call: the (tree, err) returned

bootVars == <<trees, inited, bpc, listing, t, calls, replies, seqno, bresult>>
vars == <<leaves, alive, pc, op, hashValue, root, rqst, received, verifs, events,
          reply, fetched, result, trees, inited, bpc, listing, t, calls, replies,
          seqno, bresult>>

\* status.Code: OK for a nil error, the code of a gRPC status error,
\* Unknown for any other error.
GrpcCodes == {"Unavailable", "DeadlineExceeded", "NotFound", "InvalidArgument"}
Code(err) == IF err = "nil" THEN "OK" ELSE IF err \in GrpcCodes THEN err ELSE "Unknown"

NoRqst == [rpc |-> "none", leaf |-> <<>>, first |-> 0, second |-> 0, deadline |-> FALSE]
Rqst(rpc, leaf, first, second, deadline) ==
    [rpc |-> rpc, leaf |-> leaf, first |-> first, second |-> second, deadline |-> deadline]

\* A method's return values (*Response, error).  ret is "resp" for a non-nil
\* *Response and "nil" for a nil one; field names the result field that is set.
NoResult == [ret |-> "none", status |-> "OK", field |-> "none", payload |-> <<>>,
             proofs |-> <<>>, err |-> "nil"]
Return(status, field, payload, proofs, err) ==
    [ret |-> "resp", status |-> status, field |-> field, payload |-> payload,
     proofs |-> proofs, err |-> err]
\* return &Response{}, err
ReturnEmpty(err) == Return("OK", "none", <<>>, <<>>, err)
\* return nil, err
ReturnNil(err) == [NoResult EXCEPT !.ret = "nil", !.err = err]

NoRoot == [TreeSize |-> 0, RootHash |-> <<>>]

\* How a remote call ended: its error ("nil" for none) and, for QueueLeaf,
\* the status code of the queued leaf.
Reply(err, code) == [err |-> err, code |-> code]
NoReply == Reply("none", "none")

\* -------------------------------------------------- signed log root (blob)
\* The blob is <<version, tree size>> \o root hash, version 1.
MarshalRoot(size, hash) == <<1, size>> \o hash
\* types.LogRootV1.UnmarshalBinary: the root, or "Decode".
UnmarshalBinary(blob) ==
    IF Len(blob) < 2 \/ blob[1] # 1
    THEN [err |-> "Decode", root |-> NoRoot]
    ELSE [err |-> "nil",
          root |-> [TreeSize |-> blob[2], RootHash |-> SubSeq(blob, 3, Len(blob))]]

\* ------------------------------------------------ the remote log (backend)
Prefix(n) == SubSeq(leaves, 1, n)
LatestRootBlob == MarshalRoot(Len(leaves), MTH(leaves))
\* A blob of an unknown version.
MalformedBlob == <<2>>

\* The 1-based position of the leaf with hash h among the first n leaves, or 0.
Position(h, n) ==
    IF \E i \in 1..n : i <= Len(leaves) /\ HashLeaf(leaves[i]) = h
    THEN CHOOSE i \in 1..n : i <= Len(leaves) /\ HashLeaf(leaves[i]) = h
    ELSE 0

ProofEntry(index, hashes) == [LeafIndex |-> index, Hashes |-> hashes]
\* The genuine proof of the leaf at position i in the tree of size n.
GenuineEntry(i, n) == ProofEntry(i - 1, AuditPath(i - 1, Prefix(n)))
\* The proof of position i built against the tree of size n whose leaf at
\* position j is replaced by ForgedVal.
ForgedTree(j, n) == [k \in 1..n |-> IF k = j THEN ForgedVal ELSE leaves[k]]
ForgedEntry(i, j, n) == ProofEntry(i - 1, AuditPath(i - 1, ForgedTree(j, n)))

\* What GetInclusionProofByHash may answer with a nil error: the honest
\* answer (one genuine proof), or, from a faulty or lying backend, no entry,
\* a forged entry, a genuine entry followed by a forged one, or, for a hash
\* the tree does not hold, the proof of some other leaf.
ProofResponses(h, n) ==
    LET i == Position(h, n)
    IN  IF n > Len(leaves) THEN {}
        ELSE IF i = 0 THEN {<<GenuineEntry(j, n)>> : j \in 1..n}
        ELSE {<<GenuineEntry(i, n)>>, <<>>}
             \cup {<<ForgedEntry(i, j, n)>> : j \in 1..n}
             \cup {<<GenuineEntry(i, n), ForgedEntry(i, j, n)>> : j \in 1..n}

\* ------------------------------------------------------------ client: Init
InitClient ==
    /\ leaves = <<>>
    /\ alive = TRUE
    /\ pc = [p \in Procs |-> "idle"]
    /\ op = [p \in Procs |-> "none"]
    /\ hashValue = [p \in Procs |-> <<>>]
    /\ root = [p \in Procs |-> NoRoot]
    /\ rqst = [p \in Procs |-> NoRqst]
    /\ received = [p \in Procs |-> <<>>]
    /\ verifs = [p \in Procs |-> <<>>]
    /\ events = [p \in Procs |-> <<>>]
    /\ reply = [p \in Procs |-> NoReply]
    /\ fetched = [p \in Procs |-> NoRoot]
    /\ result = [p \in Procs |-> NoResult]

\* A method starts: it builds its request and sends it.
Send(p, method, r) ==
    /\ alive
    /\ pc[p] = "idle"
    /\ pc' = [pc EXCEPT ![p] = r.rpc]
    /\ op' = [op EXCEPT ![p] = method]
    /\ rqst' = [rqst EXCEPT ![p] = r]

\* A method returns (resp, err) to its caller.
Done(p, res) ==
    /\ pc' = [pc EXCEPT ![p] = "done"]
    /\ result' = [result EXCEPT ![p] = res]

\* The pending call of p ended.
Answered(p, err, code) ==
    /\ alive
    /\ reply' = [reply EXCEPT ![p] = Reply(err, code)]

\* The errors a pending call may end with: a transport failure, a failure the
\* remote reports, and, only under a context with a deadline, its expiry.
CallErrors(r) ==
    {"Unavailable", "NotFound"} \cup (IF r.deadline THEN {"DeadlineExceeded"} ELSE {})

\* ----------------------------------------------------- backend: the sequencer
\* The log's sequencer merges one more queued leaf (queued by any client).
Merge ==
    /\ Len(leaves) < MaxLeaves
    /\ leaves' = Append(leaves, Len(leaves) + 1)
    /\ UNCHANGED <<alive, pc, op, hashValue, root, rqst, received, verifs, events, reply,
                 fetched, result>>
    /\ UNCHANGED bootVars

\* ------------------------------------------------------------------ addLeaf
addLeaf(p, v) ==
    /\ Send(p, "addLeaf", Rqst("QueueLeaf", <<v>>, 0, 0, FALSE))
    /\ UNCHANGED <<leaves, alive, hashValue, root, received, verifs, events, reply, fetched, result>>
    /\ UNCHANGED bootVars

\* The status QueueLeaf reports for the queued leaf: ALREADY_EXISTS for a
\* leaf the log holds, and for one another client has queued already.
QueueLeafStatuses(v) ==
    IF v <= Len(leaves) THEN {"ALREADY_EXISTS"} ELSE {"OK", "ALREADY_EXISTS"}

\* A variant that reads resp through its nil-safe getters: a failed call
\* comes back as an accepted one.
addLeafReturns_nilSafe(p, err, code) ==
    Done(p, Return(IF err = "nil" THEN code ELSE "OK", "getAddResult",
                   rqst[p].leaf, <<>>, "nil"))

\* QueueLeaf returned (resp, err).  On an error resp is nil, the error is
\* printed, and resp.QueuedLeaf dereferences nil: the goroutine panics.
addLeafReturns(p, err, code) ==
    IF err # "nil"
    THEN /\ pc' = [pc EXCEPT ![p] = "panic"]
         /\ UNCHANGED result
    ELSE Done(p, Return(code, "getAddResult", rqst[p].leaf, <<>>, "nil"))

QueueLeafReturns(p) ==
    /\ pc[p] = "QueueLeaf"
    /\ \E r \in {Reply("nil", c) : c \in QueueLeafStatuses(rqst[p].leaf[1])}
                 \cup {Reply(e, "none") : e \in CallErrors(rqst[p])} :
          /\ Answered(p, r.err, r.code)
          /\ addLeafReturns(p, r.err, r.code)
    /\ UNCHANGED <<leaves, alive, op, hashValue, root, rqst, received, verifs, events, fetched>>
    /\ UNCHANGED bootVars

\* ------------------------------------------------------------ getLeafByHash
getLeafByHash(p, v) ==
    /\ Send(p, "getLeafByHash", Rqst("GetLeavesByHash", HashLeaf(v), 0, 0, FALSE))
    /\ UNCHANGED <<leaves, alive, hashValue, root, received, verifs, events, reply, fetched, result>>
    /\ UNCHANGED bootVars

\* The leaves the log holds with hash h: no placeholder for the others.
LeavesByHash(h) ==
    LET i == Position(h, Len(leaves)) IN IF i = 0 THEN <<>> ELSE <<leaves[i]>>

\* GetLeavesByHash returned (resp, err).  log.Logger.Fatal(err) ends the
\* process on an error.
getLeafByHashReturns(p, err) ==
    IF err # "nil"
    THEN /\ alive' = FALSE
         /\ UNCHANGED <<pc, result>>
    ELSE /\ Done(p, Return(Code(err), "getLeafResult", LeavesByHash(rqst[p].leaf), <<>>, "nil"))
         /\ UNCHANGED alive

GetLeavesByHashReturns(p) ==
    /\ pc[p] = "GetLeavesByHash"
    /\ \E err \in {"nil"} \cup CallErrors(rqst[p]) :
          /\ Answered(p, err, "none")
          /\ getLeafByHashReturns(p, err)
    /\ UNCHANGED <<leaves, op, hashValue, root, rqst, received, verifs, events, fetched>>
    /\ UNCHANGED bootVars

\* ----------------------------------------------------------- getLeafByIndex
getLeafByIndex(p, i) ==
    /\ Send(p, "getLeafByIndex", Rqst("GetLeavesByIndex", <<>>, i, 0, TRUE))
    /\ UNCHANGED <<leaves, alive, hashValue, root, received, verifs, events, reply, fetched, result>>
    /\ UNCHANGED bootVars

\* GetLeavesByIndex returned (resp, err); resp is nil on an error.
getLeafByIndexReturns(p, err) ==
    Done(p, Return(Code(err), "getLeafByIndexResult",
                   IF err = "nil" THEN <<leaves[rqst[p].first + 1]>> ELSE <<>>,
                   <<>>, "nil"))

GetLeavesByIndexReturns(p) ==
    /\ pc[p] = "GetLeavesByIndex"
    /\ \E err \in (IF rqst[p].first < Len(leaves) THEN {"nil"} ELSE {})
                     \cup CallErrors(rqst[p]) :
          /\ Answered(p, err, "none")
          /\ getLeafByIndexReturns(p, err)
    /\ UNCHANGED <<leaves, alive, op, hashValue, root, rqst, received, verifs, events, fetched>>
    /\ UNCHANGED bootVars

\* ---------------------------------------------------------------- getLatest
getLatest(p, n) ==
    /\ Send(p, "getLatest", Rqst("GetLatestSignedLogRoot", <<>>, n, 0, TRUE))
    /\ UNCHANGED <<leaves, alive, hashValue, root, received, verifs, events, reply, fetched, result>>
    /\ UNCHANGED bootVars

getLatestReturns(p, err) ==
    IF err # "nil"
    THEN Done(p, ReturnNil(err))
    ELSE Done(p, Return(Code(err), "getLatestResult", LatestRootBlob, <<>>, "nil"))

GetLatestSignedLogRootReturns(p) ==
    /\ pc[p] = "GetLatestSignedLogRoot"
    /\ op[p] = "getLatest"
    /\ \E err \in (IF rqst[p].first <= Len(leaves) THEN {"nil"} ELSE {})
                     \cup CallErrors(rqst[p]) :
          /\ Answered(p, err, "none")
          /\ getLatestReturns(p, err)
    /\ UNCHANGED <<leaves, alive, op, hashValue, root, rqst, received, verifs, events, fetched>>
    /\ UNCHANGED bootVars

\* ------------------------------------------------------ getConsistencyProof
getConsistencyProof(p, firstSize, lastSize) ==
    /\ Send(p, "getConsistencyProof",
            Rqst("GetConsistencyProof", <<>>, firstSize, lastSize, TRUE))
    /\ UNCHANGED <<leaves, alive, hashValue, root, received, verifs, events, reply, fetched, result>>
    /\ UNCHANGED bootVars

\* The response body stands for the proof between the two sizes asked for.
getConsistencyProofReturns(p, err) ==
    IF err # "nil"
    THEN Done(p, ReturnNil(err))
    ELSE Done(p, Return(Code(err), "getConsistencyProofResult",
                        <<rqst[p].first, rqst[p].second>>, <<>>, "nil"))

GetConsistencyProofReturns(p) ==
    /\ pc[p] = "GetConsistencyProof"
    /\ \E err \in (IF 0 < rqst[p].first /\ rqst[p].first <= rqst[p].second
                        /\ rqst[p].second <= Len(leaves) THEN {"nil"} ELSE {})
                     \cup CallErrors(rqst[p]) :
          /\ Answered(p, err, "none")
          /\ getConsistencyProofReturns(p, err)
    /\ UNCHANGED <<leaves, alive, op, hashValue, root, rqst, received, verifs, events, fetched>>
    /\ UNCHANGED bootVars

\* ----------------------------------------------------------- getProofByHash
\* The context with the 20 s deadline is made first, but root() sends its
\* request under context.Background().
getProofByHash(p, v) ==
    /\ Send(p, "getProofByHash", Rqst("GetLatestSignedLogRoot", <<>>, 0, 0, FALSE))
    /\ hashValue' = [hashValue EXCEPT ![p] = HashLeaf(v)]
    /\ events' = [events EXCEPT ![p] = <<"root">>]
    /\ UNCHANGED <<leaves, alive, root, received, verifs, reply, fetched, result>>
    /\ UNCHANGED bootVars

\* TrillianClient.root after its remote call: the decoded root, or the error.
rootResult(err, blob) ==
    IF err # "nil" THEN [err |-> err, root |-> NoRoot] ELSE UnmarshalBinary(blob)

\* root() returned: on an error return (&Response{}, err); else ask for the
\* inclusion proof at the tree size of the root, under the deadline.
rootReturns(p, r) ==
    IF r.err # "nil"
    THEN /\ Done(p, ReturnEmpty(r.err))
         /\ UNCHANGED <<root, rqst, events>>
    ELSE /\ root' = [root EXCEPT ![p] = r.root]
         /\ rqst' = [rqst EXCEPT ![p] =
                Rqst("GetInclusionProofByHash", hashValue[p], r.root.TreeSize, 0, TRUE)]
         /\ pc' = [pc EXCEPT ![p] = "GetInclusionProofByHash"]
         /\ events' = [events EXCEPT ![p] = Append(@, "proof")]
         /\ UNCHANGED result

RootReturns(p) ==
    /\ pc[p] = "GetLatestSignedLogRoot"
    /\ op[p] = "getProofByHash"
    /\ \/ \E err \in CallErrors(rqst[p]) :
             /\ Answered(p, err, "none")
             /\ rootReturns(p, rootResult(err, <<>>))
             /\ UNCHANGED fetched
       \/ \E blob \in {LatestRootBlob, MalformedBlob} :
             /\ Answered(p, "nil", "none")
             /\ rootReturns(p, rootResult("nil", blob))
             /\ fetched' = [fetched EXCEPT ![p] =
                    [TreeSize |-> Len(leaves), RootHash |-> MTH(leaves)]]
    /\ UNCHANGED <<leaves, alive, op, hashValue, received, verifs>>
    /\ UNCHANGED bootVars

\* One VerifyInclusionProof call of the loop, as made for a proof entry.
verifyEntry(proof, rt, leafHash) ==
    [LeafIndex |-> proof.LeafIndex, TreeSize |-> rt.TreeSize, RootHash |-> rt.RootHash,
     err |-> VerifyInclusionProof(proof.LeafIndex, rt.TreeSize, proof.Hashes,
                                  rt.RootHash, leafHash)]

\* A variant whose guard is inverted (resp == nil): the loop never runs.
verifyLoop_skipped(proofs, i, rt, leafHash) == <<>>

\* The loop over resp.Proof: the calls made, up to and including the first
\* that returns an error.
RECURSIVE verifyLoop(_, _, _, _)
verifyLoop(proofs, i, rt, leafHash) ==
    IF i > Len(proofs) THEN <<>>
    ELSE LET c == verifyEntry(proofs[i], rt, leafHash)
         IN  IF c.err # "ok" THEN <<c>>
             ELSE <<c>> \o verifyLoop(proofs, i + 1, rt, leafHash)

\* A variant that logs a verification failure and returns the proof anyway.
proofResult_warnOnly(err, proofs, vs) ==
    Return(Code(err), IF err = "nil" THEN "getProofResult" ELSE "none",
           <<>>, proofs, "nil")

\* The value getProofByHash returns after its loop made the calls vs.
proofResult(err, proofs, vs) ==
    IF err = "nil" /\ vs # <<>> /\ vs[Len(vs)].err # "ok"
    THEN ReturnEmpty(vs[Len(vs)].err)
    ELSE Return(Code(err), IF err = "nil" THEN "getProofResult" ELSE "none",
                <<>>, proofs, "nil")

\* A variant that verifies against the log's root as it is after the proof
\* came back (a second root fetch) instead of the root fetched before.
proofReturns_refetch(p, err, proofs) ==
    LET now == [TreeSize |-> Len(leaves), RootHash |-> MTH(leaves)]
        vs  == IF err = "nil" THEN verifyLoop(proofs, 1, now, hashValue[p]) ELSE <<>>
    IN  /\ received' = [received EXCEPT ![p] = proofs]
        /\ verifs' = [verifs EXCEPT ![p] = vs]
        /\ events' = [events EXCEPT ![p] = IF vs # <<>> THEN Append(@, "verify") ELSE @]
        /\ Done(p, proofResult(err, proofs, vs))

\* GetInclusionProofByHash returned (resp, err); resp is nil on an error.
proofReturns(p, err, proofs) ==
    LET vs == IF err = "nil" THEN verifyLoop(proofs, 1, root[p], hashValue[p]) ELSE <<>>
    IN  /\ received' = [received EXCEPT ![p] = proofs]
        /\ verifs' = [verifs EXCEPT ![p] = vs]
        /\ events' = [events EXCEPT ![p] = IF vs # <<>> THEN Append(@, "verify") ELSE @]
        /\ Done(p, proofResult(err, proofs, vs))

GetInclusionProofByHashReturns(p) ==
    /\ pc[p] = "GetInclusionProofByHash"
    /\ \/ \E err \in CallErrors(rqst[p]) :
             /\ Answered(p, err, "none")
             /\ proofReturns(p, err, <<>>)
       \/ \E proofs \in ProofResponses(rqst[p].leaf, rqst[p].first) :
             /\ Answered(p, "nil", "none")
             /\ proofReturns(p, "nil", proofs)
    /\ UNCHANGED <<leaves, alive, op, hashValue, root, rqst, fetched>>
    /\ UNCHANGED bootVars

\* ------------------------------------------------------------- client: Next
Sizes == 0..MaxLeaves

ClientNext ==
    \/ Merge
    \/ \E p \in Procs :
          \/ \E v \in Vals : addLeaf(p, v)
          \/ QueueLeafReturns(p)
          \/ \E v \in Vals : getLeafByHash(p, v)
          \/ GetLeavesByHashReturns(p)
          \/ \E i \in 0..(MaxLeaves - 1) : getLeafByIndex(p, i)
          \/ GetLeavesByIndexReturns(p)
          \/ \E v \in Vals : getProofByHash(p, v)
          \/ RootReturns(p)
          \/ GetInclusionProofByHashReturns(p)
          \/ \E n \in Sizes : getLatest(p, n)
          \/ GetLatestSignedLogRootReturns(p)
          \/ \E a \in Sizes : \E b \in Sizes : getConsistencyProof(p, a, b)
          \/ GetConsistencyProofReturns(p)

\* ---------------------------------------------------------- tree bootstrap
\* Three bootstrap calls, each made once.
Boots == {1, 2, 3}
TreeTypes == {"LOG", "MAP"}
Tree(id, type, by) == [id |-> id, type |-> type, by |-> by]
NoTree == Tree(0, "none", 0)
NoBResult == [tree |-> NoTree, err |-> "none"]

\* The trees a scope may hold before the first call: made by others (by = 0).
InitialTrees ==
    UNION {[1..n -> TreeTypes] : n \in 0..MaxInitTrees}

InitBoot ==
    /\ \E ts \in InitialTrees :
          /\ trees = [i \in 1..Len(ts) |-> Tree(i, ts[i], 0)]
          /\ inited = 1..Len(ts)
    /\ bpc = [b \in Boots |-> "idle"]
    /\ listing = [b \in Boots |-> <<>>]
    /\ t = [b \in Boots |-> NoTree]
    /\ calls = [b \in Boots |-> <<>>]
    /\ replies = [b \in Boots |-> <<>>]
    /\ seqno = [b \in Boots |-> 0]
    /\ bresult = [b \in Boots |-> NoBResult]

\* The first tree of the listing with TreeType LOG, or NoTree.
FirstLog(ts) ==
    IF \E i \in 1..Len(ts) : ts[i].type = "LOG"
    THEN ts[CHOOSE i \in 1..Len(ts) :
               /\ ts[i].type = "LOG"
               /\ \A k \in 1..(i - 1) : ts[k].type # "LOG"]
    ELSE NoTree

BDone(b, tree, err) ==
    /\ bpc' = [bpc EXCEPT ![b] = "done"]
    /\ bresult' = [bresult EXCEPT ![b] = [tree |-> tree, err |-> err]]

BSend(b, rpc) ==
    /\ bpc' = [bpc EXCEPT ![b] = rpc]
    /\ calls' = [calls EXCEPT ![b] = Append(@, rpc)]

\* The pending call of b ended with err.
BAnswered(b, err) == replies' = [replies EXCEPT ![b] = Append(@, err)]

\* createAndInitTree starts: it lists the trees.
createAndInitTree(b) ==
    /\ bpc[b] = "idle"
    /\ BSend(b, "ListTrees")
    /\ seqno' = [seqno EXCEPT ![b] = Cardinality({c \in Boots : seqno[c] # 0}) + 1]
    /\ UNCHANGED <<trees, inited, listing, t, replies, bresult>>
    /\ UNCHANGED clientVars

\* A variant without the lookup: it always goes on to create a tree.
listTreesReturns_noLookup(b, err, ts) ==
    IF err # "nil"
    THEN /\ BDone(b, NoTree, err)
         /\ UNCHANGED <<listing, calls>>
    ELSE /\ listing' = [listing EXCEPT ![b] = ts]
         /\ BSend(b, "CreateTree")
         /\ UNCHANGED bresult

\* A variant that runs InitLog on the tree it found before returning it.
listTreesReturns_initFound(b, err, ts) ==
    IF err # "nil"
    THEN /\ BDone(b, NoTree, err)
         /\ UNCHANGED <<listing, calls>>
    ELSE /\ listing' = [listing EXCEPT ![b] = ts]
         /\ BSend(b, IF FirstLog(ts) # NoTree THEN "InitLog" ELSE "CreateTree")
         /\ UNCHANGED bresult

\* ListTrees returned (trees, err): return the error, or the first LOG tree
\* of the listing, or go on to create one.
listTreesReturns(b, err, ts) ==
    IF err # "nil"
    THEN /\ BDone(b, NoTree, err)
         /\ UNCHANGED <<listing, calls>>
    ELSE /\ listing' = [listing EXCEPT ![b] = ts]
         /\ IF FirstLog(ts) # NoTree
            THEN /\ BDone(b, FirstLog(ts), "nil")
                 /\ UNCHANGED calls
            ELSE /\ BSend(b, "CreateTree")
                 /\ UNCHANGED bresult

ListTreesReturns(b) ==
    /\ bpc[b] = "ListTrees"
    /\ \E err \in {"nil", "Unavailable"} :
          /\ BAnswered(b, err)
          /\ listTreesReturns(b, err, trees)
    /\ UNCHANGED <<trees, inited, t, seqno>>
    /\ UNCHANGED clientVars

\* The listing with a new tree in it: the server lists trees in the order
\* of its storage, so the new tree may show at any place k.
Inserted(ts, k, tree) == SubSeq(ts, 1, k - 1) \o <<tree>> \o SubSeq(ts, k, Len(ts))

\* CreateTree returned (t, err): return the error, or go on to InitLog.
createTreeReturns(b, err, tree) ==
    IF err # "nil"
    THEN /\ BDone(b, NoTree, err)
         /\ UNCHANGED <<t, calls>>
    ELSE /\ t' = [t EXCEPT ![b] = tree]
         /\ BSend(b, "InitLog")
         /\ UNCHANGED bresult

CreateTreeReturns(b) ==
    /\ bpc[b] = "CreateTree"
    /\ \/ /\ BAnswered(b, "Unavailable")
          /\ createTreeReturns(b, "Unavailable", NoTree)
          /\ UNCHANGED trees
       \/ \E k \in 1..(Len(trees) + 1) :
             LET tree == Tree(Len(trees) + 1, "LOG", b)
             IN  /\ BAnswered(b, "nil")
                 /\ trees' = Inserted(trees, k, tree)
                 /\ createTreeReturns(b, "nil", tree)
    /\ UNCHANGED <<inited, listing, seqno>>
    /\ UNCHANGED clientVars

\* A variant that drops InitLog's error and returns the tree.
initLogReturns_swallow(b, err) == BDone(b, t[b], "nil")

\* client.InitLog returned: return its error, or the tree.
initLogReturns(b, err) ==
    IF err # "nil" THEN BDone(b, NoTree, err) ELSE BDone(b, t[b], "nil")

InitLogReturns(b) ==
    /\ bpc[b] = "InitLog"
    /\ \/ /\ BAnswered(b, "Unavailable")
          /\ initLogReturns(b, "Unavailable")
          /\ UNCHANGED inited
       \/ /\ BAnswered(b, "nil")
          /\ inited' = inited \cup {t[b].id}
          /\ initLogReturns(b, "nil")
    /\ UNCHANGED <<trees, listing, t, calls, seqno>>
    /\ UNCHANGED clientVars

BootStep(b) ==
    \/ ListTreesReturns(b)
    \/ CreateTreeReturns(b)
    \/ InitLogReturns(b)

\* -------------------------------------------------------- specifications
\* The client's calls, two at a time, against a growing log.
Init ==
    /\ InitClient
    /\ trees = <<>> /\ inited = {}
    /\ bpc = [b \in Boots |-> "idle"]
    /\ listing = [b \in Boots |-> <<>>]
    /\ t = [b \in Boots |-> NoTree]
    /\ calls = [b \in Boots |-> <<>>]
    /\ replies = [b \in Boots |-> <<>>]
    /\ seqno = [b \in Boots |-> 0]
    /\ bresult = [b \in Boots |-> NoBResult]

Next == ClientNext

Spec == Init /\ [][Next]_vars

\* Bootstrap calls that may run concurrently.
BootInit == InitClient /\ InitBoot

BootNext == \E b \in Boots : createAndInitTree(b) \/ BootStep(b)

BootSpec == BootInit /\ [][BootNext]_vars

\* Bootstrap calls made one after the other: a call starts only when no
\* other call is in flight.
NoneInFlight == \A b \in Boots : bpc[b] \in {"idle", "done"}

SeqNext == \E b \in Boots : (NoneInFlight /\ createAndInitTree(b)) \/ BootStep(b)

SeqSpec == BootInit /\ [][SeqNext]_vars

\* ====================================================== properties: client
IsProofCall(p) == op[p] = "getProofByHash"
\* The call handed its caller the proof it received, as a success.
Succeeded(p) ==
    /\ pc[p] = "done"
    /\ result[p].ret = "resp" /\ result[p].err = "nil" /\ result[p].status = "OK"
    /\ result[p].field = "getProofResult" /\ result[p].proofs = received[p]
\* The call failed with a verification error and handed back no proof.
Rejected(p) ==
    /\ pc[p] = "done"
    /\ result[p].err \in {"mismatch", "malformed"}
    /\ result[p].field = "none" /\ result[p].proofs = <<>>
\* The entries received that do not verify against the root the backend
\* reported to this call.
BadEntries(p) ==
    {k \in 1..Len(received[p]) :
        VerifyInclusionProof(received[p][k].LeafIndex, fetched[p].TreeSize,
                             received[p][k].Hashes, fetched[p].RootHash,
                             hashValue[p]) # "ok"}

\* C1: getProofByHash returns a proof only if every entry the backend
\* returned verified against the root fetched in the same call; if an entry
\* fails, the call returns an error and no proof.
C1_OnlyVerifiedProofsReturned ==
    \A p \in Procs :
        (IsProofCall(p) /\ pc[p] = "done") =>
            /\ (result[p].proofs # <<>> => BadEntries(p) = {} /\ Succeeded(p))
            /\ (BadEntries(p) # {} => Rejected(p))

\* C1 witness: a call received a genuine entry followed by a forged one,
\* verified both, and failed.
C1_Witness ==
    \E p \in Procs :
        /\ IsProofCall(p) /\ pc[p] = "done"
        /\ Len(received[p]) = 2 /\ Len(verifs[p]) = 2
        /\ BadEntries(p) = {2}
        /\ Rejected(p)

\* C2 (as claimed): whenever a remote call of a client method fails, the
\* method returns a result that reports the failure: no crash, no process
\* exit, no success.
C2_FailuresReturned ==
    /\ alive
    /\ \A p \in Procs :
          reply[p].err \notin {"none", "nil"} =>
              /\ pc[p] = "done"
              /\ result[p].ret # "none"
              /\ result[p].err # "nil" \/ result[p].status # "OK"

\* C3: addLeaf surfaces ALREADY_EXISTS as a non-error result with that
\* status, distinct from the result for a new leaf (OK), and a failed
\* QueueLeaf call is never returned as ALREADY_EXISTS or as accepted.
C3_DuplicateSurfaced ==
    \A p \in Procs :
        op[p] = "addLeaf" =>
            /\ (reply[p].err = "nil" =>
                    /\ pc[p] = "done"
                    /\ result[p].ret = "resp" /\ result[p].err = "nil"
                    /\ result[p].status = reply[p].code
                    /\ result[p].status \in {"OK", "ALREADY_EXISTS"})
            /\ (reply[p].err \notin {"none", "nil"} =>
                    ~ (pc[p] = "done" /\ result[p].err = "nil"
                       /\ result[p].status \in {"OK", "ALREADY_EXISTS"}))
            /\ (pc[p] = "done" /\ result[p].status = "OK" =>
                    reply[p].code # "ALREADY_EXISTS")

\* C3 witness: one addLeaf of a leaf the log holds came back as
\* ALREADY_EXISTS while another addLeaf met a transport failure.
C3_Witness ==
    \E p \in Procs : \E q \in Procs :
        /\ op[p] = "addLeaf" /\ pc[p] = "done"
        /\ rqst[p].leaf[1] <= Len(leaves)
        /\ reply[p] = Reply("nil", "ALREADY_EXISTS")
        /\ result[p].status = "ALREADY_EXISTS" /\ result[p].err = "nil"
        /\ op[q] = "addLeaf" /\ reply[q].err = "Unavailable"

\* C7 (as claimed): every pending remote call of a method other than
\* addLeaf carries a deadline, so a backend that never answers cannot hold
\* the method forever.
Pending(p) == pc[p] \notin {"idle", "done", "panic"}
C7_EveryCallHasDeadline ==
    \A p \in Procs : (Pending(p) /\ op[p] # "addLeaf") => rqst[p].deadline

\* The position of the asked leaf in the tree of the size this call fetched.
AskedAt(p) == Position(hashValue[p], fetched[p].TreeSize)
\* The call got a nil error and one or more entries for a leaf of the tree.
ProofAnswered(p) ==
    /\ IsProofCall(p) /\ pc[p] = "done"
    /\ rqst[p].rpc = "GetInclusionProofByHash" /\ reply[p].err = "nil"
    /\ AskedAt(p) # 0

\* C8 (as claimed, on the tree of four leaves it names): the genuine proof
\* is accepted, and a proof built against a tree that differs in one leaf,
\* whichever it is, is rejected.
C8_AnyForgedProofRejected ==
    \A p \in Procs :
        (ProofAnswered(p) /\ fetched[p].TreeSize = 4) =>
            LET n == fetched[p].TreeSize
                i == AskedAt(p)
            IN  /\ (received[p] = <<GenuineEntry(i, n)>> => Succeeded(p))
                /\ \A j \in 1..n :
                      received[p] = <<ForgedEntry(i, j, n)>> => Rejected(p)

\* C8 (amended): the genuine proof is accepted; a proof built against a
\* tree that differs in one leaf other than the asked one is rejected; a
\* proof built against a tree that differs only in the asked leaf is the
\* genuine proof, and is accepted.
C8_ForgedSiblingRejected ==
    \A p \in Procs :
        ProofAnswered(p) =>
            LET n == fetched[p].TreeSize
                i == AskedAt(p)
            IN  /\ (received[p] = <<GenuineEntry(i, n)>> => Succeeded(p))
                /\ \A j \in 1..n :
                      received[p] = <<ForgedEntry(i, j, n)>> =>
                          IF j = i THEN Succeeded(p) ELSE Rejected(p)

\* C8 witness: over the full tree, the second leaf's genuine proof was
\* accepted in one call, and a proof forged with another first leaf was
\* rejected in the other.
C8_Witness ==
    \E p \in Procs : \E q \in Procs :
        /\ ProofAnswered(p) /\ ProofAnswered(q)
        /\ fetched[p].TreeSize = MaxLeaves /\ fetched[q].TreeSize = MaxLeaves
        /\ AskedAt(p) = 2 /\ AskedAt(q) = 2
        /\ received[p] = <<GenuineEntry(2, MaxLeaves)>> /\ Succeeded(p)
        /\ received[q] = <<ForgedEntry(2, 1, MaxLeaves)>> /\ Rejected(q)

\* C9: getProofByHash fetches the root, then asks for the proof at that
\* root's tree size, then verifies every entry with that root's size and
\* hash; a failed root fetch ends the call with no proof request; and a
\* call the backend answers honestly succeeds against its own root.
StepsInOrder(e) ==
    e \in {<<"root">>, <<"root", "proof">>, <<"root", "proof", "verify">>}
C9_OwnRootInOrder ==
    \A p \in Procs :
        IsProofCall(p) =>
            /\ StepsInOrder(events[p])
            /\ (rqst[p].rpc = "GetInclusionProofByHash" =>
                    /\ reply[p].err # "none"
                    /\ Len(events[p]) >= 2
                    /\ rqst[p].leaf = hashValue[p]
                    /\ rqst[p].first = fetched[p].TreeSize)
            /\ (rqst[p].rpc = "GetLatestSignedLogRoot" /\ reply[p].err # "none" =>
                    /\ events[p] = <<"root">>
                    /\ pc[p] = "done" /\ result[p].err # "nil"
                    /\ result[p].proofs = <<>>)
            /\ \A k \in 1..Len(verifs[p]) :
                    /\ verifs[p][k].TreeSize = fetched[p].TreeSize
                    /\ verifs[p][k].RootHash = fetched[p].RootHash
                    /\ verifs[p][k].LeafIndex = received[p][k].LeafIndex
            /\ (ProofAnswered(p)
                 /\ received[p] = <<GenuineEntry(AskedAt(p), fetched[p].TreeSize)>> =>
                    Len(verifs[p]) = 1 /\ Succeeded(p))

\* C9 witness: two calls fetched roots of different sizes, the log grew
\* past both, and each was answered honestly and succeeded.
C9_Witness ==
    \E p \in Procs : \E q \in Procs :
        /\ ProofAnswered(p) /\ ProofAnswered(q)
        /\ fetched[p].TreeSize < fetched[q].TreeSize
        /\ fetched[q].TreeSize < Len(leaves)
        /\ received[p] = <<GenuineEntry(AskedAt(p), fetched[p].TreeSize)>>
        /\ received[q] = <<GenuineEntry(AskedAt(q), fetched[q].TreeSize)>>
        /\ Succeeded(p) /\ Succeeded(q)

\* =================================================== properties: bootstrap
Ok(b) == bpc[b] = "done" /\ bresult[b].err = "nil"
\* Call a was started before call b.
Before(a, b) == seqno[a] # 0 /\ seqno[a] < seqno[b]
\* Call b created a tree and its InitLog failed.
InitFailed(b) ==
    /\ calls[b] = <<"ListTrees", "CreateTree", "InitLog">>
    /\ Len(replies[b]) = Len(calls[b])
    /\ replies[b][Len(calls[b])] # "nil"
CreatedTrees == {i \in 1..Len(trees) : trees[i].by # 0}

\* C4: of two calls made one after the other, the second returns the tree
\* the first returned and issues no CreateTree; a call whose listing shows
\* a LOG tree returns the first LOG tree in list order and issues neither
\* CreateTree nor InitLog.
C4_SecondCallFindsTree ==
    /\ \A b \in Boots :
          (bpc[b] = "done" /\ \E i \in 1..Len(listing[b]) : listing[b][i].type = "LOG") =>
              /\ calls[b] = <<"ListTrees">>
              /\ \E i \in 1..Len(listing[b]) :
                    /\ listing[b][i].type = "LOG"
                    /\ \A k \in 1..(i - 1) : listing[b][k].type # "LOG"
                    /\ bresult[b] = [tree |-> listing[b][i], err |-> "nil"]
    /\ \A a \in Boots : \A b \in Boots :
          (Ok(a) /\ Before(a, b)) =>
              /\ calls[b] = <<"ListTrees">>
              /\ Ok(b) => bresult[b].tree.id = bresult[a].tree.id

\* C4 witness: the first call created and initialized a tree, and a later
\* call returned the same tree after listing alone.
C4_Witness ==
    \E a \in Boots : \E b \in Boots :
        /\ Ok(a) /\ calls[a] = <<"ListTrees", "CreateTree", "InitLog">>
        /\ Before(a, b) /\ Ok(b)
        /\ bresult[b].tree = bresult[a].tree
        /\ calls[b] = <<"ListTrees">>

\* C5 (as claimed): whatever the interleaving of the calls, at most one
\* tree has been created in the scope.
C5_AtMostOneCreated == Cardinality(CreatedTrees) <= 1

\* C6: a call whose listing, creation or initialization fails returns that
\* error and no tree and issues no later call; after a failed
\* initialization the created tree stays listed, uninitialized.
C6_FailureEndsCall ==
    \A b \in Boots :
        /\ Len(replies[b]) <= Len(calls[b])
        /\ \A k \in 1..Len(replies[b]) :
              replies[b][k] # "nil" =>
                  /\ k = Len(calls[b])
                  /\ bpc[b] = "done"
                  /\ bresult[b] = [tree |-> NoTree, err |-> replies[b][k]]
        /\ InitFailed(b) =>
              /\ \E i \in 1..Len(trees) : trees[i] = t[b]
              /\ t[b].id \notin inited
        /\ SubSeq(<<"ListTrees", "CreateTree", "InitLog">>, 1, Len(calls[b])) = calls[b]

\* C6 witness: a call listed, created a tree, and failed to initialize it.
C6_Witness ==
    \E b \in Boots :
        /\ InitFailed(b) /\ bpc[b] = "done"
        /\ replies[b] = <<"nil", "nil", "Unavailable">>
        /\ bresult[b].tree = NoTree

\* C10: after a call created a tree and failed to initialize it, no later
\* call issues CreateTree or InitLog, the tree is never initialized, and
\* every later call whose listing succeeds returns that tree as a success.
C10_UninitializedTreeReturned ==
    \A a \in Boots :
        InitFailed(a) =>
            /\ t[a].id \notin inited
            /\ \A b \in Boots :
                  Before(a, b) =>
                      /\ SubSeq(calls[b], 1, 1) = <<"ListTrees">> /\ Len(calls[b]) = 1
                      /\ (bpc[b] = "done" /\ replies[b] = <<"nil">>) =>
                            bresult[b] = [tree |-> t[a], err |-> "nil"]
                      /\ Ok(b) => bresult[b].tree.id \notin inited

\* C10 witness: two later calls both returned the tree whose
\* initialization had failed.
C10_Witness ==
    \E a \in Boots : \E b \in Boots : \E c \in Boots :
        /\ InitFailed(a) /\ Before(a, b) /\ Before(b, c)
        /\ Ok(b) /\ Ok(c)
        /\ bresult[b].tree = t[a] /\ bresult[c].tree = t[a]
        /\ t[a].id \notin inited

====
